---- MODULE Spec2Model ----
(***************************************************************************)
(* The /upload handler of website/app.py and the catalog file it shares    *)
(* between requests.  Two server threads run the handler; the only shared  *)
(* state is the catalog file, so a handler is cut into steps exactly at    *)
(* its file-system calls: the read (open 'r' + json.load), the open 'w'    *)
(* (which truncates) and the dump (json.dump + close, which flushes).      *)
(*                                                                         *)
(* Numbers are fixed point: periods and radii in tenths (0.2 days is 2),   *)
(* the BLS power in hundredths, so that sqrt(power) is in tenths.          *)
(* File names are sequences of one-character strings.                      *)
(***************************************************************************)
EXTENDS Integers, Sequences, FiniteSets, TLC

VARIABLES
    lk,              \* module global lk: TRUE when lightkurve was imported
    pd,              \* module globals pd and np: TRUE when both were imported
    catalog,         \* the file exoplanets.json: [kind, data, len]
    pc,              \* per thread: where its handler stands
    req,             \* per thread: the request being (or last) handled
    pos,             \* per thread: read position of the upload stream
    analysis_result, \* per thread: local analysis_result
    current_data,    \* per thread: local current_data
    response,        \* per thread: what render_template was last given
    raised,          \* per thread: where the current request raised (history)
    touched,         \* per thread: catalog accesses of the current request (history)
    before,          \* per thread: length of 'custom' when the request began (history)
    lastGood,        \* the last well-formed content the file held (history)
    served           \* per thread: number of requests begun

vars == <<lk, pd, catalog, pc, req, pos, analysis_result, current_data,
          response, raised, touched, before, lastGood, served>>

----------------------------------------------------------------------------
(* Bounds and program constants *)

MaxUploads == 2
SmallSize == 8

\* read(1024), line 152
PreviewLimit == 1024
\* minimum_period=0.2 and maximum_period=30.0, line 111, in tenths of a day
MinPeriod == 2
MaxPeriod == 300
\* json.dump(..., indent=2), line 144: the characters of a record besides its
\* name and its two numbers (braces, keys, quotes, indentation, separator),
\* and those of a dataset's key with an empty list
RecordOverhead == 66
DatasetOverhead == 16

Threads == {"t1", "t2"}

Min(a, b) == IF a < b THEN a ELSE b

----------------------------------------------------------------------------
(* JSON values of the catalog *)

Absent == [t |-> "none", items |-> <<>>]
NonList == [t |-> "scalar", items |-> <<>>]
List(s) == [t |-> "list", items |-> s]

EmptyObj == [custom |-> Absent, kepler |-> Absent]

Record(n, p, r) == [name |-> n, period |-> p, radius |-> r]

\* Length of repr(x) for a float with one decimal, x given in tenths.
Width(x) == IF x < 100 THEN 3 ELSE IF x < 1000 THEN 4 ELSE 5

RECURSIVE ItemsLen(_)
ItemsLen(s) ==
    IF s = <<>> THEN 0
    ELSE RecordOverhead + Len(Head(s).name) + Width(Head(s).period)
         + Width(Head(s).radius) + ItemsLen(Tail(s))

\* A dataset's key with its value: a one-character scalar in place of the
\* two brackets, or the list, whose brackets stand on lines of their own once
\* it holds a record.
EntryLen(v) ==
    IF v.t = "none" THEN 0
    ELSE IF v.t = "scalar" THEN DatasetOverhead - 1
    ELSE IF v.items = <<>> THEN DatasetOverhead
    ELSE DatasetOverhead + 2 + ItemsLen(v.items)

\* Number of characters json.dump(obj, f, indent=2) writes.
ByteLen(obj) == 2 + EntryLen(obj.custom) + EntryLen(obj.kepler)

FileAbsent == [kind |-> "absent", data |-> EmptyObj, len |-> 0]
FileCorrupt(n) == [kind |-> "corrupt", data |-> EmptyObj, len |-> n]
FileNonObj == [kind |-> "nonobj", data |-> EmptyObj, len |-> 1]
FileObj(obj) == [kind |-> "obj", data |-> obj, len |-> ByteLen(obj)]

----------------------------------------------------------------------------
(* Requests *)

Filenames == { <<"a", ".", "c">>, <<".", "b">> }

\* shape: what pd.read_csv makes of the bytes.  "garbage": it raises (an empty
\* file, bytes that do not decode); "nocols": it parses and 'time' or 'flux'
\* is not among the columns; "timeflux": it parses and both are.
Shapes == {"garbage", "nocols", "timeflux"}

\* curve: what the light curve of a "timeflux" file makes of lines 106-115.
\* "bad": one of the library calls raises (too few points, no numbers);
\* "flat": the periodogram peaks at the shortest period with a power <= 0;
\* "dip": it peaks at the longest period with a positive power.
Curves == {"bad", "flat", "dip"}

SizesOf(shape) ==
    IF shape = "garbage" THEN {0}
    ELSE IF shape = "nocols" THEN {SmallSize, PreviewLimit + 1}
    ELSE {PreviewLimit}

CurvesOf(shape) == IF shape = "timeflux" THEN Curves ELSE {"bad"}

NoFileRequest ==
    [present |-> FALSE, filename |-> <<>>, size |-> 0, shape |-> "garbage", curve |-> "bad"]

Requests ==
    {NoFileRequest}
    \cup {[NoFileRequest EXCEPT !.present = TRUE]}
    \cup UNION {{[present |-> TRUE, filename |-> f, size |-> n, shape |-> sh, curve |-> c] :
                    f \in Filenames, n \in SizesOf(sh), c \in CurvesOf(sh)} : sh \in Shapes}

\* `uploaded_file and uploaded_file.filename`
HasFileNameless(u) == u.present
HasFile(u) == u.present /\ u.filename # <<>>

\* os.path.splitext(filename)[0]: cut at the last dot, when that dot comes
\* after the last separator and is not one of the name's leading dots.
LastIndex(s, c) ==
    LET I == {i \in 1..Len(s) : s[i] = c}
    IN  IF I = {} THEN 0 ELSE CHOOSE i \in I : \A j \in I : j <= i

SplitExtRoot(s) ==
    LET sep == LastIndex(s, "/")
        dot == LastIndex(s, ".")
    IN  IF dot > sep /\ \E i \in (sep + 1)..(dot - 1) : s[i] # "."
        THEN SubSeq(s, 1, dot - 1)
        ELSE s

----------------------------------------------------------------------------
(* The analysis, lines 104-124 *)

\* The condition of line 104, given the DataFrame of lines 99-102.
CanAnalyzeNoLk(u) == pd /\ u.shape = "timeflux"
CanAnalyze(u) == lk /\ pd /\ u.shape = "timeflux"

\* to_periodogram(method='bls', minimum_period=0.2, maximum_period=30.0):
\* period_at_max_power is a point of the period grid, which lies within the
\* two bounds given; power_at_max_power is any number.
BlsRaises(u) == u.curve = "bad"
BlsPeriod(u) == IF u.curve = "flat" THEN MinPeriod ELSE MaxPeriod
BlsPower(u) == IF u.curve = "flat" THEN -4 ELSE 9

ISqrt(n) == CHOOSE r \in 0..n : r * r <= n /\ (r + 1) * (r + 1) > n
Abs(x) == IF x < 0 THEN -x ELSE x

\* line 116
RadiusRatioSigned(depth) == IF depth > 0 THEN ISqrt(Abs(depth)) ELSE depth
RadiusRatio(depth) == IF depth > 0 THEN ISqrt(Abs(depth)) ELSE 0

None == [set |-> FALSE, filename |-> <<>>, best_period |-> 0, planet_radius |-> 0]
Analysis(f, bp, pr) == [set |-> TRUE, filename |-> f, best_period |-> bp, planet_radius |-> pr]

----------------------------------------------------------------------------
(* Messages and responses *)

Msg(k, f, n, bp, pr, e) ==
    [kind |-> k, filename |-> f, nbytes |-> n, period |-> bp, radius |-> pr, exc |-> e]

NoFileMsg == Msg("nofile", <<>>, 0, 0, 0, "")
CompleteMsg(bp, pr) == Msg("complete", <<>>, 0, bp, pr, "")
UnableMsg(f, n) == Msg("unable", f, n, 0, 0, "")
ErrorMsg(e) == Msg("error", <<>>, 0, 0, 0, e)

\* The except clause of lines 155-158: the message becomes the exception's
\* text and trace, where `prev` is the message held until then.
OuterExceptKeeps(prev, e) == prev
OuterExcept(prev, e) == ErrorMsg(e)

NoResponse == [sent |-> FALSE, message |-> NoFileMsg, dips |-> <<>>, analysis |-> None]
Render(m, a) == [sent |-> TRUE, message |-> m, dips |-> <<>>, analysis |-> a]

----------------------------------------------------------------------------
(* The catalog file *)

\* json.load of lines 128-129 on a file that opens; "raise" when it does not parse.
Loaded(file) ==
    IF file.kind = "obj" THEN [kind |-> "obj", data |-> file.data]
    ELSE IF file.kind = "nonobj" THEN [kind |-> "nonobj", data |-> EmptyObj]
    ELSE [kind |-> "raise", data |-> EmptyObj]

\* line 131
ReadFallbackNone == [kind |-> "nonobj", data |-> EmptyObj]
ReadFallback == [kind |-> "obj", data |-> EmptyObj]

\* lines 132-140 on a mapping whose 'custom' is absent or a list
WithCustom(obj, rec) ==
    [obj EXCEPT !.custom =
        List(Append(IF obj.custom.t = "none" THEN <<>> ELSE obj.custom.items, rec))]

\* open(data_path, 'w'): the file exists and is empty
Truncated == FileCorrupt(0)

\* The flush of json.dump's output at offset 0 of a file that holds file.len
\* bytes: bytes beyond the new content stay.
OverlayKeep(file, obj) == IF file.len = 0 THEN FileObj(obj) ELSE file
Overlay(file, obj) ==
    IF file.len <= ByteLen(obj) THEN FileObj(obj) ELSE FileCorrupt(file.len)

----------------------------------------------------------------------------
(* Initial states *)

StoredRecord == Record(<<"k">>, MinPeriod, 1)

InitialFiles ==
    {FileAbsent, FileCorrupt(1), FileNonObj}
    \cup {FileObj([custom |-> c, kepler |-> List(<<StoredRecord>>)]) :
             c \in {Absent, NonList, List(<<StoredRecord>>)}}

CustomCount(file) ==
    IF file.kind = "obj" /\ file.data.custom.t = "list"
    THEN Len(file.data.custom.items) ELSE 0

Good(file, old) ==
    IF file.kind = "obj" THEN [known |-> TRUE, data |-> file.data] ELSE old

\* lines 7-17: lightkurve itself imports numpy and pandas, so lk is set only
\* where pd and np are.
Init ==
    /\ lk \in BOOLEAN
    /\ pd \in BOOLEAN
    /\ lk => pd
    /\ catalog \in InitialFiles
    /\ pc = [p \in Threads |-> "ready"]
    /\ req = [p \in Threads |-> NoFileRequest]
    /\ pos = [p \in Threads |-> 0]
    /\ analysis_result = [p \in Threads |-> None]
    /\ current_data = [p \in Threads |-> ReadFallback]
    /\ response = [p \in Threads |-> NoResponse]
    /\ raised = [p \in Threads |-> {}]
    /\ touched = [p \in Threads |-> {}]
    /\ before = [p \in Threads |-> 0]
    /\ lastGood = Good(catalog, [known |-> FALSE, data |-> EmptyObj])
    /\ served = [p \in Threads |-> 0]

----------------------------------------------------------------------------
(* The handler, lines 82-159 *)

RECURSIVE SumOver(_, _)
SumOver(f, S) ==
    IF S = {} THEN 0
    ELSE LET x == CHOOSE y \in S : TRUE IN f[x] + SumOver(f, S \ {x})

Total(f) == SumOver(f, Threads)

\* lines 90-93, for request u on thread p
Begin(p, u) ==
    /\ pc[p] = "ready"
    /\ Total(served) < MaxUploads
    /\ served' = [served EXCEPT ![p] = @ + 1]
    /\ req' = [req EXCEPT ![p] = u]
    /\ touched' = [touched EXCEPT ![p] = {}]
    /\ before' = [before EXCEPT ![p] = CustomCount(catalog)]
    /\ current_data' = [current_data EXCEPT ![p] = ReadFallback]
    /\ UNCHANGED <<lk, pd, catalog, lastGood>>

\* line 159
Return(p, m, a) ==
    /\ response' = [response EXCEPT ![p] = Render(m, a)]
    /\ pc' = [pc EXCEPT ![p] = "ready"]

\* lines 90-95, 159: no file, or a file with an empty name
UploadNoFile(p, u) ==
    /\ ~HasFile(u)
    /\ Begin(p, u)
    /\ raised' = [raised EXCEPT ![p] = {}]
    /\ pos' = [pos EXCEPT ![p] = 0]
    /\ analysis_result' = [analysis_result EXCEPT ![p] = None]
    /\ Return(p, NoFileMsg, None)

\* lines 97-100, 155-159: pd.read_csv raises
UploadParseError(p, u) ==
    /\ HasFile(u)
    /\ pd /\ u.shape = "garbage"
    /\ Begin(p, u)
    /\ raised' = [raised EXCEPT ![p] = {"parse"}]
    /\ pos' = [pos EXCEPT ![p] = u.size]
    /\ analysis_result' = [analysis_result EXCEPT ![p] = None]
    /\ Return(p, OuterExcept(NoFileMsg, "parse"), None)

\* lines 97-104, 150-154, 159: the else branch.  read_csv, when it ran, has
\* read the stream to its end; read(1024) returns what is left of it.
UploadUnable(p, u) ==
    /\ HasFile(u)
    /\ ~(pd /\ u.shape = "garbage")
    /\ ~CanAnalyze(u)
    /\ Begin(p, u)
    /\ LET at == IF pd THEN u.size ELSE 0
           n == Min(PreviewLimit, u.size - at)
       IN  /\ pos' = [pos EXCEPT ![p] = at + n]
           /\ Return(p, UnableMsg(u.filename, n), None)
    /\ raised' = [raised EXCEPT ![p] = {}]
    /\ analysis_result' = [analysis_result EXCEPT ![p] = None]

\* lines 104-118, 155-159: LightCurve, flatten, to_periodogram or float raises
UploadAnalysisError(p, u) ==
    /\ HasFile(u)
    /\ CanAnalyze(u)
    /\ BlsRaises(u)
    /\ Begin(p, u)
    /\ raised' = [raised EXCEPT ![p] = {"analysis"}]
    /\ pos' = [pos EXCEPT ![p] = u.size]
    /\ analysis_result' = [analysis_result EXCEPT ![p] = None]
    /\ Return(p, OuterExcept(NoFileMsg, "analysis"), None)

\* lines 104-125: the analysis returns; the handler stands before the read
UploadAnalyzed(p, u) ==
    /\ HasFile(u)
    /\ CanAnalyze(u)
    /\ ~BlsRaises(u)
    /\ Begin(p, u)
    /\ raised' = [raised EXCEPT ![p] = {}]
    /\ pos' = [pos EXCEPT ![p] = u.size]
    /\ analysis_result' =
           [analysis_result EXCEPT ![p] = Analysis(u.filename, BlsPeriod(u), RadiusRatio(BlsPower(u)))]
    /\ pc' = [pc EXCEPT ![p] = "load"]
    /\ UNCHANGED response

\* lines 126-140 (and 155-159 when line 132, 133 or 136 raises).  `fault`: the
\* open fails though the file is there (permissions, I/O).
LoadCatalog(p, fault) ==
    /\ pc[p] = "load"
    /\ LET a == analysis_result[p]
           got == IF fault \/ catalog.kind = "absent"
                  THEN [kind |-> "raise", data |-> EmptyObj]
                  ELSE Loaded(catalog)
           failed == got.kind = "raise"
           cur == IF failed THEN ReadFallback ELSE got
           rec == Record(SplitExtRoot(a.filename), a.best_period, a.planet_radius)
           ioexc == IF failed THEN {"read"} ELSE {}
       IN  /\ touched' = [touched EXCEPT ![p] = @ \cup {"read"}]
           /\ IF cur.kind = "nonobj" \/ cur.data.custom.t = "scalar"
              THEN /\ raised' = [raised EXCEPT ![p] = @ \cup ioexc \cup {"update"}]
                   /\ Return(p, OuterExcept(NoFileMsg, "update"), a)
                   /\ UNCHANGED current_data
              ELSE /\ raised' = [raised EXCEPT ![p] = @ \cup ioexc]
                   /\ current_data' = [current_data EXCEPT ![p] =
                          [kind |-> "obj", data |-> WithCustom(cur.data, rec)]]
                   /\ pc' = [pc EXCEPT ![p] = "open"]
                   /\ UNCHANGED response
    /\ UNCHANGED <<lk, pd, catalog, req, pos, analysis_result, before, lastGood, served>>

\* line 143, and lines 145-159 when the open fails
OpenForWrite(p, ok) ==
    /\ pc[p] = "open"
    /\ LET a == analysis_result[p]
       IN  IF ok
           THEN /\ catalog' = Truncated
                /\ touched' = [touched EXCEPT ![p] = @ \cup {"write"}]
                /\ pc' = [pc EXCEPT ![p] = "dump"]
                /\ UNCHANGED <<raised, response>>
           ELSE /\ raised' = [raised EXCEPT ![p] = @ \cup {"open"}]
                /\ Return(p, CompleteMsg(a.best_period, a.planet_radius), a)
                /\ UNCHANGED <<catalog, touched>>
    /\ UNCHANGED <<lk, pd, req, pos, analysis_result, current_data, before, lastGood, served>>

\* line 144 with the close of the with block, then lines 145-159.  The dump
\* is flushed in one piece at the close; a failed flush writes nothing.
DumpAndClose(p, ok) ==
    /\ pc[p] = "dump"
    /\ LET a == analysis_result[p]
       IN  /\ IF ok
              THEN /\ catalog' = Overlay(catalog, current_data[p].data)
                   /\ UNCHANGED raised
              ELSE /\ raised' = [raised EXCEPT ![p] = @ \cup {"dump"}]
                   /\ UNCHANGED catalog
           /\ Return(p, CompleteMsg(a.best_period, a.planet_radius), a)
    /\ lastGood' = Good(catalog', lastGood)
    /\ UNCHANGED <<lk, pd, req, pos, analysis_result, current_data, touched, before, served>>

Next ==
    \/ \E p \in Threads, u \in Requests : UploadNoFile(p, u)
    \/ \E p \in Threads, u \in Requests : UploadParseError(p, u)
    \/ \E p \in Threads, u \in Requests : UploadUnable(p, u)
    \/ \E p \in Threads, u \in Requests : UploadAnalysisError(p, u)
    \/ \E p \in Threads, u \in Requests : UploadAnalyzed(p, u)
    \/ \E p \in Threads, fault \in BOOLEAN : LoadCatalog(p, fault)
    \/ \E p \in Threads, ok \in BOOLEAN : OpenForWrite(p, ok)
    \/ \E p \in Threads, ok \in BOOLEAN : DumpAndClose(p, ok)

Spec == Init /\ [][Next]_vars

----------------------------------------------------------------------------
(* What the claims speak of *)

\* Thread p holds the response to request req[p].
Answered(p) == pc[p] = "ready" /\ response[p].sent

\* The step is one of thread p's and ends its handler.
Returns(p) == (served'[p] # served[p] \/ pc[p] # "ready") /\ pc'[p] = "ready"

\* The step is thread p's completed write of the catalog.
Wrote(p) == pc[p] = "dump" /\ pc'[p] = "ready" /\ "dump" \notin raised'[p]

\* The record lines 136-140 make of an analysis.
RecordOf(a) == Record(SplitExtRoot(a.filename), a.best_period, a.planet_radius)

CustomItems(obj) == IF obj.custom.t = "list" THEN obj.custom.items ELSE <<>>

IsPrefix(s, t) == Len(s) <= Len(t) /\ SubSeq(t, 1, Len(s)) = s

InRange(a) ==
    /\ MinPeriod <= a.best_period /\ a.best_period <= MaxPeriod
    /\ a.planet_radius >= 0

WellFormedCsv(u) == HasFile(u) /\ u.shape = "timeflux"

----------------------------------------------------------------------------
(* C1 *)

C1_Analysed ==
    \A p \in Threads :
        Answered(p) /\ WellFormedCsv(req[p]) /\ lk /\ pd /\ "analysis" \notin raised[p]
        => /\ response[p].analysis.set
           /\ response[p].analysis.filename = req[p].filename
           /\ InRange(response[p].analysis)

C1_Prepared(p) ==
    pc[p] = "load" /\ pc'[p] = "open"
    => LET had == IF "read" \in raised'[p] THEN <<>> ELSE CustomItems(catalog.data)
       IN  /\ current_data'[p].data.custom.t = "list"
           /\ current_data'[p].data.custom.items
                  = Append(had, RecordOf(analysis_result[p]))

C1_Written(p) ==
    Wrote(p) /\ catalog.len <= ByteLen(current_data[p].data)
    => /\ catalog'.kind = "obj"
       /\ CustomItems(catalog'.data) = CustomItems(current_data[p].data)

----------------------------------------------------------------------------
(* C2 *)

\* C2, as stated: after every write the handler makes to the catalog file the
\* file holds valid JSON, whatever it held before; and when the read had
\* failed (file missing or corrupt) the file written holds exactly
\* {'custom': [the new record]}.
C2_Original ==
    [][\A p \in Threads :
          Wrote(p)
          => /\ catalog'.kind \in {"obj", "nonobj"}
             /\ "read" \in raised[p]
                => catalog'.data = WithCustom(EmptyObj, RecordOf(analysis_result[p]))]_vars

----------------------------------------------------------------------------
(* C3 *)

\* C3: the write is last-writer-wins.  A completed write puts the writer's own
\* content in the file, with nothing of what the file held, so that a record
\* another upload stored after the writer's read is gone: two uploads that
\* both report 'Analysis complete' can leave the record of only one (C3_Witness).
C3_LastWriterWins ==
    [][\A p \in Threads :
          Wrote(p) /\ catalog'.kind = "obj" => catalog'.data = current_data[p].data]_vars

Stored(p) ==
    /\ Answered(p)
    /\ response[p].message.kind = "complete"
    /\ raised[p] = {}
    /\ "write" \in touched[p]

C3_Witness ==
    /\ \A p \in Threads : Stored(p)
    /\ catalog.kind = "obj"
    /\ \E p \in Threads :
          \A i \in 1..Len(CustomItems(catalog.data)) :
              CustomItems(catalog.data)[i] # RecordOf(response[p].analysis)

----------------------------------------------------------------------------
(* C4 *)

\* C4, as stated: every uploaded file that lacks the time or the flux column,
\* and every upload made while lightkurve is absent, gets the 'Unable to
\* analyze' message with no analysis object, and the catalog file is unchanged.
C4_Original ==
    [][\A p \in Threads :
          Returns(p) /\ HasFile(req'[p]) /\ (req'[p].shape # "timeflux" \/ ~lk)
          => /\ response'[p].message.kind = "unable"
             /\ ~response'[p].analysis.set
             /\ catalog' = catalog]_vars

\* C4, amended: the same for every uploaded file that the CSV parser, when it
\* is present, reads without raising.
C4_Amended ==
    [][\A p \in Threads :
          /\ Returns(p) /\ HasFile(req'[p]) /\ (req'[p].shape # "timeflux" \/ ~lk)
          /\ ~(pd /\ req'[p].shape = "garbage")
          => /\ response'[p].message.kind = "unable"
             /\ response'[p].message.filename = req'[p].filename
             /\ ~response'[p].analysis.set
             /\ touched'[p] = {}
             /\ catalog' = catalog]_vars

C4_Witness ==
    \E p, q \in Threads :
        /\ ~lk /\ pd
        /\ Answered(p) /\ req[p].shape = "nocols"
        /\ response[p].message.kind = "unable"
        /\ Answered(q) /\ req[q].shape = "timeflux"
        /\ response[q].message.kind = "unable"

----------------------------------------------------------------------------
(* C5 *)

\* C5, as stated: every exception raised while the handler parses the file,
\* runs the analysis or updates the catalog is caught, and the response's
\* message is 'Error processing file:' with the exception's text and trace.
C5_Original ==
    \A p \in Threads :
        Answered(p) /\ raised[p] # {}
        => response[p].message.kind = "error" /\ response[p].message.exc \in raised[p]

OuterSites == {"parse", "analysis", "update"}

\* C5, amended: every such exception is caught and the handler returns a
\* response; the message is 'Error processing file:' with the exception's text
\* and trace for every exception but a failure to read or to write the catalog
\* file, which the inner handlers absorb.
C5_Amended ==
    \A p \in Threads :
        /\ Answered(p)
           => /\ response[p].message.kind = "error" <=> raised[p] \cap OuterSites # {}
              /\ response[p].message.kind = "error"
                 => response[p].message.exc \in raised[p] \cap OuterSites
        /\ pc[p] # "ready"
           => /\ raised[p] \cap OuterSites = {}
              /\ \E b \in BOOLEAN :
                    ENABLED (LoadCatalog(p, b) \/ OpenForWrite(p, b) \/ DumpAndClose(p, b))

C5_Witness ==
    \E p, q \in Threads :
        /\ Answered(p) /\ response[p].message = ErrorMsg("update")
        /\ Answered(q) /\ response[q].message = ErrorMsg("parse")

----------------------------------------------------------------------------
(* C6 *)

\* C6: a failure to read or to write the catalog file leaves the response of
\* an analysed upload what it is without the failure, the 'Analysis complete'
\* message with the analysis object; after a failed read the handler goes on
\* with the empty mapping.
C6_IoFailureSwallowed ==
    \A p \in Threads :
        LET u == req[p]
            a == Analysis(u.filename, BlsPeriod(u), RadiusRatio(BlsPower(u)))
        IN  /\ Answered(p) /\ raised[p] \cap {"read", "open", "dump"} # {}
               => response[p] = Render(CompleteMsg(a.best_period, a.planet_radius), a)
            /\ pc[p] \in {"open", "dump"} /\ "read" \in raised[p]
               => current_data[p].data = WithCustom(EmptyObj, RecordOf(a))

C6_Witness ==
    \E p \in Threads :
        /\ Answered(p)
        /\ raised[p] = {"read", "dump"}
        /\ response[p].message.kind = "complete"
        /\ response[p].analysis.set

----------------------------------------------------------------------------
(* C7 *)

\* C7: a request with no 'lightcurve' file, or with a file of empty name, gets
\* the message 'No file uploaded or empty filename.', no analysis object and
\* an empty dips list; nothing is raised and the catalog file is neither read
\* nor written.
C7_NoFile ==
    [][\A p \in Threads :
          served'[p] # served[p] /\ ~(req'[p].present /\ req'[p].filename # <<>>)
          => /\ pc'[p] = "ready"
             /\ response'[p] = [sent |-> TRUE, message |-> NoFileMsg,
                                dips |-> <<>>, analysis |-> None]
             /\ raised'[p] = {}
             /\ touched'[p] = {}
             /\ catalog' = catalog]_vars

C7_Witness ==
    \E p, q \in Threads :
        /\ Answered(p) /\ req[p].present /\ req[p].filename = <<>>
        /\ response[p].message = NoFileMsg
        /\ Answered(q) /\ ~req[q].present
        /\ response[q].message = NoFileMsg

----------------------------------------------------------------------------
(* C8 *)

\* C8, as stated: in the 'Unable to analyze' response the byte count is
\* min(1024, size of the uploaded file), whether or not the CSV parser has run.
C8_Original ==
    \A p \in Threads :
        Answered(p) /\ response[p].message.kind = "unable"
        => response[p].message.nbytes = Min(PreviewLimit, req[p].size)

----------------------------------------------------------------------------
(* C9 *)

Extends(old, new) ==
    /\ new.kepler = old.kepler
    /\ \/ new.custom = old.custom
       \/ /\ new.custom.t = "list"
          /\ IsPrefix(CustomItems(old), new.custom.items)
          /\ \A i \in (Len(CustomItems(old)) + 1)..Len(new.custom.items) :
                \E p \in Threads : new.custom.items[i] = RecordOf(analysis_result[p])

\* C9, as stated: from a catalog that is a JSON object whose 'custom', when
\* present, is a list, no sequence or interleaving of uploads removes, reorders
\* or alters a stored record or touches another dataset: whenever the file
\* holds a catalog again, it is the catalog it last held with records of
\* uploads appended to 'custom'.  (Stated for the uploads on which nothing is
\* raised, file-system failures left aside.)
C9_Original ==
    [][/\ lastGood.known /\ lastGood.data.custom.t # "scalar"
       /\ \A p \in Threads : raised'[p] = {}
       /\ catalog'.kind = "obj"
       => Extends(lastGood.data, catalog'.data)]_vars

----------------------------------------------------------------------------
(* C10 *)

\* C10, as stated: a response carries an analysis object if and only if its
\* message is the 'Analysis complete' message.
C10_Original ==
    \A p \in Threads :
        Answered(p) => (response[p].analysis.set <=> response[p].message.kind = "complete")

====
